---- MODULE Spec2Model ----
(***************************************************************************)
(* A model of 2convert.py: batch conversion of audio files.                *)
(*                                                                         *)
(* Strings are sequences of one-character strings, so that the path and    *)
(* regular-expression operations of the script (os.path.split, splitext,   *)
(* str.split, re.match) are computed on characters as Python computes      *)
(* them.                                                                   *)
(***************************************************************************)
EXTENDS Integers, Sequences, FiniteSets, TLC

\* ------------------------------------------------------------------------
\* Strings
\* ------------------------------------------------------------------------

SLASH == "/"

\* s[a..b] as a string (empty when a > b)
Sub(s, a, b) == IF a > b THEN << >> ELSE SubSeq(s, a, b)

\* Python's s.startswith(t, i-1): t occurs in s at (1-based) position i
OccursAt(s, t, i) ==
    /\ i >= 1
    /\ i + Len(t) - 1 <= Len(s)
    /\ \A k \in 1..Len(t) : s[i + k - 1] = t[k]

\* Python's s.find(t, from-1) + 1: first position >= from where t occurs, 0 if none
Find(s, t, from) ==
    LET hits == {i \in from..(Len(s) - Len(t) + 1) : OccursAt(s, t, i)}
    IN  IF hits = {} THEN 0 ELSE CHOOSE i \in hits : \A k \in hits : i <= k

\* Python's s.rfind(c) + 1 for a single character c: last position of c, 0 if none
RFind(s, c) ==
    LET hits == {i \in 1..Len(s) : s[i] = c}
    IN  IF hits = {} THEN 0 ELSE CHOOSE i \in hits : \A k \in hits : i >= k

\* Python's s.rstrip('/')
RStripSlash(s) ==
    LET keep == {i \in 1..Len(s) : s[i] # SLASH}
    IN  IF keep = {} THEN << >>
        ELSE Sub(s, 1, CHOOSE i \in keep : \A k \in keep : i >= k)

AllSlashes(s) == \A i \in 1..Len(s) : s[i] = SLASH

\* Python's s.split(sep)[1]: the text between the first and the second
\* occurrence of sep (or up to the end of s when sep occurs once).
\* Only used where sep occurs in s (str.split would raise IndexError otherwise).
split_1(s, sep) ==
    LET first  == Find(s, sep, 1)
        start  == first + Len(sep)
        second == Find(s, sep, start)
    IN  IF second = 0 THEN Sub(s, start, Len(s)) ELSE Sub(s, start, second - 1)

UpperCase == <<"A","B","C","D","E","F","G","H","I","J","K","L","M",
               "N","O","P","Q","R","S","T","U","V","W","X","Y","Z">>
LowerCase == <<"a","b","c","d","e","f","g","h","i","j","k","l","m",
               "n","o","p","q","r","s","t","u","v","w","x","y","z">>

\* str.lower()
LowerChar(c) ==
    IF \E i \in 1..26 : UpperCase[i] = c
    THEN LowerCase[CHOOSE i \in 1..26 : UpperCase[i] = c]
    ELSE c

lower(s) == [i \in 1..Len(s) |-> LowerChar(s[i])]

\* ------------------------------------------------------------------------
\* posixpath
\* ------------------------------------------------------------------------

\* os.path.split(p) = <<head, tail>>
path_split(p) ==
    LET i    == RFind(p, SLASH)
        head == Sub(p, 1, i)
        tail == Sub(p, i + 1, Len(p))
    IN  << IF head # << >> /\ ~AllSlashes(head) THEN RStripSlash(head) ELSE head,
           tail >>

\* os.path.dirname(p)
path_dirname(p) == path_split(p)[1]

\* os.path.join(a, b)
path_join(a, b) ==
    IF b # << >> /\ b[1] = SLASH THEN b
    ELSE IF a = << >> \/ a[Len(a)] = SLASH THEN a \o b
    ELSE a \o <<SLASH>> \o b

\* os.path.splitext(p) = <<root, ext>>: the extension starts at the last dot
\* of the last component, leading dots of that component not counting
path_splitext(p) ==
    LET sepIndex == RFind(p, SLASH)
        dotIndex == RFind(p, ".")
    IN  IF dotIndex > sepIndex
           /\ \E k \in (sepIndex + 1)..(dotIndex - 1) : p[k] # "."
        THEN << Sub(p, 1, dotIndex - 1), Sub(p, dotIndex, Len(p)) >>
        ELSE << p, << >> >>

\* shutil._basename(p): the last component, a trailing slash ignored
shutil_basename(p) == path_split(RStripSlash(p))[2]

\* ------------------------------------------------------------------------
\* Regular expressions of get_tag_info_from_path
\* ------------------------------------------------------------------------

IsDigit(c)  == c \in {"0","1","2","3","4","5","6","7","8","9"}
IsLetter(c) == \E i \in 1..26 : c = UpperCase[i] \/ c = LowerCase[i]

\* [a-zA-Z _\d.()']
IsText(c) == IsLetter(c) \/ IsDigit(c) \/ c \in {" ", "_", ".", "(", ")", "'"}

\* [a-zA-Z _\d.()'-]
IsTextDash(c) == IsText(c) \/ c = "-"

\* [- _.]
IsSep(c) == c \in {"-", " ", "_", "."}

\* the end of the longest run of characters of a class that starts at i
\* (i - 1 when s[i] is not of the class): a greedy  [class]*
RunEnd(s, i, InClass(_)) ==
    LET ends == {j \in (i - 1)..Len(s) : \A k \in i..j : InClass(s[k])}
    IN  CHOOSE j \in ends : \A k \in ends : j >= k

NoMatch == [matched |-> FALSE]

\* re.match(r"([a-zA-Z _\d.()']+)", s)
match_text(s) ==
    LET e == RunEnd(s, 1, IsText)
    IN  IF e >= 1 THEN [matched |-> TRUE, g1 |-> Sub(s, 1, e)] ELSE NoMatch

\* the separator class as the mutant reads it: the period is not a separator
IsSepNoPeriod(c) == c \in {"-", " ", "_"}

\* match_2field with a separator pattern that lacks the period
match_2field_noperiod(s) ==
    LET d  == RunEnd(s, 1, IsDigit)
        se == RunEnd(s, d + 1, IsSepNoPeriod)
        te == RunEnd(s, se + 1, IsTextDash)
    IN  IF d >= 1 /\ se > d /\ te > se
        THEN [matched |-> TRUE, g1 |-> Sub(s, 1, d), g2 |-> Sub(s, se + 1, te)]
        ELSE NoMatch

\* re.match(r"([\d]+)" + r"[- _.]+" + r"([a-zA-Z _\d.()'-]+)", s)
\* The digits and the separators are matched greedily. Every separator is
\* also a text character, so when no text character follows the run of
\* separators the match backtracks and the last separator becomes the text.
match_2field(s) ==
    LET d  == RunEnd(s, 1, IsDigit)
        se == RunEnd(s, d + 1, IsSep)
        te == RunEnd(s, se + 1, IsTextDash)
    IN  IF d < 1 \/ se <= d THEN NoMatch
        ELSE IF te > se
             THEN [matched |-> TRUE, g1 |-> Sub(s, 1, d), g2 |-> Sub(s, se + 1, te)]
        ELSE IF se - d >= 2
             THEN [matched |-> TRUE, g1 |-> Sub(s, 1, d), g2 |-> Sub(s, se, se)]
        ELSE NoMatch

\* ------------------------------------------------------------------------
\* Tag sets: functions from tag names to strings
\* ------------------------------------------------------------------------

EmptyTags == << >>

\* dict.update: the entries of info replace those of tag_info
dict_update(tag_info, info) == info @@ tag_info

parse2(s, field1_name, field2_name) ==
    LET m == match_2field(s)
    IN  IF m.matched
        THEN (field1_name :> m.g1) @@ (field2_name :> m.g2)
        ELSE LET m2 == match_text(s)
             IN  IF m2.matched THEN (field2_name :> m2.g1) ELSE EmptyTags

parse1(s, field_name) ==
    LET m == match_text(s)
    IN  IF m.matched THEN (field_name :> m.g1) ELSE EmptyTags

\* parse_fcn_lookup[i] applied to f
parse_fcn_lookup(i, f) ==
    CASE i = 1 -> parse2(f, "TRACKNUMBER", "TITLE")
      [] i = 2 -> parse2(f, "DATE", "ALBUM")
      [] i = 3 -> parse1(f, "ARTIST")
      [] i = 4 -> parse1(f, "GENRE")

ParseFcnCount == 4

\* the while loop that collects the folder names above the file, innermost
\* first, up to (and without) the folder named src_folder
RECURSIVE walk_fields(_, _, _)
walk_fields(p, fields, src_folder) ==
    IF p = << >> THEN fields
    ELSE LET sp == path_split(p)
         IN  IF sp[2] = src_folder THEN fields
             ELSE IF sp[1] = <<SLASH>> THEN Append(fields, sp[2])
             ELSE walk_fields(sp[1], Append(fields, sp[2]), src_folder)

\* fields: the file name without extension, then the folder names
path_fields(path, src_folder) ==
    LET sp == path_split(path_splitext(path)[1])
    IN  walk_fields(sp[1], <<sp[2]>>, src_folder)

\* for f, parse_fcn in zip(fields, parse_fcn_lookup): tag_info.update(parse_fcn(f))
RECURSIVE zip_parse(_, _, _)
zip_parse(fields, i, tag_info) ==
    IF i > Len(fields) \/ i > ParseFcnCount THEN tag_info
    ELSE zip_parse(fields, i + 1, dict_update(tag_info, parse_fcn_lookup(i, fields[i])))

get_tag_info_from_path(path, src_folder) ==
    zip_parse(path_fields(path, src_folder), 1, EmptyTags)

\* the order in which get_tag_info_from_path inserts its keys, which is the
\* order of addtl_tags.items()
TagOrder == <<"TRACKNUMBER", "TITLE", "DATE", "ALBUM", "ARTIST", "GENRE">>

\* the body of the loop of to_mp3 without its test: tag_info[k] = v
merge_item_overwrite(tag_info, k, v) == (k :> v) @@ tag_info

\* the body of the loop of to_mp3: if k not in tag_info: tag_info[k] = v
merge_item(tag_info, k, v) ==
    IF k \notin DOMAIN tag_info THEN (k :> v) @@ tag_info ELSE tag_info

\* to_mp3: for k, v in addtl_tags.items(): ...
RECURSIVE merge_loop(_, _, _)
merge_loop(tag_info, addtl_tags, i) ==
    IF i > Len(TagOrder) THEN tag_info
    ELSE IF TagOrder[i] \in DOMAIN addtl_tags
    THEN merge_loop(merge_item(tag_info, TagOrder[i], addtl_tags[TagOrder[i]]),
                    addtl_tags, i + 1)
    ELSE merge_loop(tag_info, addtl_tags, i + 1)

merge_tags(tag_info, addtl_tags) == merge_loop(tag_info, addtl_tags, 1)

\* ------------------------------------------------------------------------
\* The batch run: names, bounds and inputs
\* ------------------------------------------------------------------------

D_2mp3  == <<"2","m","p","3">>
D_2wav  == <<"2","w","a","v">>
D_2flac == <<"2","f","l","a","c">>
D_done  == <<"d","o","n","e">>

E_wav  == <<".","w","a","v">>
E_mp3  == <<".","m","p","3">>
E_flac == <<".","f","l","a","c">>
E_jpg  == <<".","j","p","g">>

\* the segments of a path joined by "/"
RECURSIVE PathOf(_)
PathOf(segs) ==
    IF Len(segs) = 1 THEN segs[1]
    ELSE segs[1] \o <<SLASH>> \o PathOf(Tail(segs))

\* the largest number of files in the source folders of a run
MaxJobs == 5

\* the largest worker-pool size (num_jobs)
MaxK == 2

\* the largest number of files of a 'go' run with more than one worker
MaxParJobs == 2

\* The files a run may find in the source folders, in the order in which
\* main() lists them (src_folders order, then the listing order of a folder)
FilePool == <<
    PathOf(<<D_2mp3, <<"a">> >>),
    PathOf(<<D_2mp3, <<"x">> \o E_wav>>),
    PathOf(<<D_2mp3, D_2mp3, <<"x">> \o E_wav>>),
    PathOf(<<D_2wav, <<"x">> \o E_wav>>),
    PathOf(<<D_2wav, <<"a">>, <<"f">> \o E_flac>>),
    PathOf(<<D_2flac, <<"y">> \o E_mp3>>),
    PathOf(<<D_2flac, <<"a">>, <<"z">> \o E_flac>>),
    PathOf(<<D_2flac, <<"w">> \o E_wav>>) >>

PoolIdx == 1..Len(FilePool)

\* exit codes of an external command: zero, non-zero
ExitCodes == {0, 1}

\* what 'flac -d path -o temp' can leave behind: exit code, and whether the
\* output file exists afterwards (a successful decode wrote it)
DecodeOutcomes ==
    { [rc |-> 0, out |-> TRUE], [rc |-> 1, out |-> FALSE], [rc |-> 1, out |-> TRUE] }

\* the uuid4-named temporary wave file of the flac_to_flac call of case j
TempDigits == <<"1","2","3","4","5","6","7","8","9">>
temp_wav_filename(j) == <<"~", TempDigits[j]>> \o E_wav

\* ------------------------------------------------------------------------
\* The file system
\* ------------------------------------------------------------------------

\* a path without its trailing slashes, as the kernel resolves it
Norm(p) == IF AllSlashes(p) THEN p ELSE RStripSlash(p)

\* all proper ancestor folders of a relative path
RECURSIVE Ancestors(_)
Ancestors(p) ==
    LET h == path_dirname(p)
    IN  IF h = << >> \/ h = p THEN {} ELSE {h} \cup Ancestors(h)

InDoneTree(p) == OccursAt(p, D_done \o <<SLASH>>, 1)

VARIABLES
    command,     \* "go" or "preview"
    num_jobs,    \* worker-pool size
    files,       \* the regular files: path -> content (the path it was created at)
    dirs,        \* the directories
    cases,       \* the job list of main()
    taskq,       \* chunks of case indices not yet taken by a worker
    wk,          \* per worker: pc, chunk, locals of process_case
    job,         \* per case: what has happened to it
    printed,     \* case indices of the command lines printed, in order
    mainState,   \* "init", "running", "done", "crashed"
    timeReported \* "Time taken" was printed

runVars == <<command, num_jobs, files, dirs, cases, taskq, wk, job, printed,
             mainState, timeReported>>

\* The tag resolution of one converter call
VARIABLES
    t_pc,        \* "start", "file", "path", "merged", "again", "done"
    t_fcn,       \* "to_mp3" or "to_flac"
    t_parts,     \* the names the path was built from
    t_path,      \* the path of the source file
    embedded,    \* what get_tag_info_from_file returned
    tag_info,    \* tag_info of the converter
    addtl_tags,  \* what get_tag_info_from_path returned
    merged_once  \* tag_info after the merge loop of to_mp3

tagVars == <<t_pc, t_fcn, t_parts, t_path, embedded, tag_info, addtl_tags, merged_once>>

vars == <<runVars, tagVars>>

os_path_isdir(p)  == Norm(p) \in dirs
os_path_isfile(p) == p \in DOMAIN files
os_path_exists(p) == os_path_isdir(p) \/ os_path_isfile(p)

\* ------------------------------------------------------------------------
\* main(): building the job list
\* ------------------------------------------------------------------------

src_folders == <<D_2mp3, D_2wav, D_2flac>>

conv_fcn_lut(folder) ==
    CASE folder = D_2mp3  -> "to_mp3"
      [] folder = D_2wav  -> "to_wav"
      [] folder = D_2flac -> "to_flac"

\* all_files(folder): the regular files below folder, in listing order
all_files(folder) ==
    LET idx == {i \in PoolIdx : /\ FilePool[i] \in DOMAIN files
                                /\ OccursAt(FilePool[i], folder \o <<SLASH>>, 1)}
        RECURSIVE listing(_)
        listing(S) ==
            IF S = {} THEN << >>
            ELSE LET i == CHOOSE m \in S : \A k \in S : m <= k
                 IN  <<FilePool[i]>> \o listing(S \ {i})
    IN  listing(idx)

\* the cases main() appends for one source folder
folder_cases(folder) ==
    LET f_list == all_files(folder)
        keep   == SelectSeq(f_list, LAMBDA f : lower(path_splitext(f)[2]) # E_jpg)
    IN  [i \in 1..Len(keep) |->
            [path |-> keep[i], fcn |-> conv_fcn_lut(folder),
             preview |-> (command = "preview")]]

build_cases ==
    folder_cases(src_folders[1]) \o folder_cases(src_folders[2])
        \o folder_cases(src_folders[3])

\* ThreadPool.map: the chunks the iterable is cut into, each one task
chunk_size(n, k) ==
    IF n = 0 THEN 0
    ELSE (n \div (k * 4)) + (IF n % (k * 4) # 0 THEN 1 ELSE 0)

RECURSIVE chunks_from(_, _, _)
chunks_from(first, n, size) ==
    IF first > n THEN << >>
    ELSE LET last == IF first + size - 1 < n THEN first + size - 1 ELSE n
         IN  <<[i \in 1..(last - first + 1) |-> first + i - 1]>>
                \o chunks_from(last + 1, n, size)

pool_map_chunks(n, k) == chunks_from(1, n, chunk_size(n, k))

\* ------------------------------------------------------------------------
\* Workers and cases
\* ------------------------------------------------------------------------

Workers == 1..num_jobs

\* status is the converter's local of that name: the result of the last
\* check_subprocess_status, which no code reads
IdleWorker == [pc |-> "idle", chunk |-> << >>, status |-> TRUE,
               dest_path |-> << >>, mk |-> << >>, real_dst |-> << >>]

NewJob == [runs |-> 0, phase |-> "new", procs |-> 0,
           cmds |-> 0, temps |-> 0, dest |-> << >>, at |-> << >>]

\* the case worker w is processing
Cur(w) == Head(wk[w].chunk)

Ext(j) == lower(path_splitext(cases[j].path)[2])

\* check_subprocess_status(cmd, process): True iff the return code is zero
check_subprocess_status(returncode) == returncode = 0

\* process_case returns normally: the worker goes on with its chunk
Return(w, j, jb, phase) ==
    /\ job' = [jb EXCEPT ![j].phase = phase]
    /\ wk' = [wk EXCEPT ![w] =
                [IdleWorker EXCEPT
                    !.chunk = Tail(wk[w].chunk),
                    !.pc = IF Tail(wk[w].chunk) = << >> THEN "idle" ELSE "ready"]]
    /\ UNCHANGED mainState

\* An exception leaves process_case. In the pool it ends the worker's task
\* (mapstar maps the function over the whole chunk), and the worker takes the
\* next task; in the sequential loop of main() it ends the run.
Raise(w, j, jb, phase) ==
    /\ job' = [jb EXCEPT ![j].phase = phase]
    /\ IF command = "preview"
       THEN /\ wk' = [wk EXCEPT ![w] = [IdleWorker EXCEPT !.pc = "stopped"]]
            /\ mainState' = "crashed"
       ELSE /\ wk' = [wk EXCEPT ![w] = IdleWorker]
            /\ UNCHANGED mainState

\* Popen(cmd) and check_subprocess_status, or the printed command in preview
RunOrPrint(w, j, next_pc) ==
    IF cases[j].preview
    THEN /\ printed' = Append(printed, j)
         /\ job' = job
         /\ wk' = [wk EXCEPT ![w].pc = next_pc]
    ELSE /\ \E rc \in ExitCodes :
              wk' = [wk EXCEPT ![w].pc = next_pc,
                               ![w].status = check_subprocess_status(rc)]
         /\ job' = [job EXCEPT ![j].procs = @ + 1, ![j].cmds = @ + 1]
         /\ printed' = printed

\* ------------------------------------------------------------------------
\* main() and the pool
\* ------------------------------------------------------------------------

\* main() up to the dispatch: the job list, then pool.map or the loop
main_start ==
    /\ mainState = "init"
    /\ LET cs == build_cases
       IN  /\ cases' = cs
           /\ job' = [j \in 1..Len(cs) |-> NewJob]
           /\ IF command = "preview"
              THEN /\ taskq' = << >>
                   /\ wk' = [wk EXCEPT ![1] =
                               [IdleWorker EXCEPT
                                   !.chunk = [i \in 1..Len(cs) |-> i],
                                   !.pc = IF Len(cs) = 0 THEN "idle" ELSE "ready"]]
              ELSE /\ taskq' = pool_map_chunks(Len(cs), num_jobs)
                   /\ wk' = wk
    /\ mainState' = "running"
    /\ UNCHANGED <<command, num_jobs, files, dirs, printed, timeReported>>

\* A pool worker takes the next task. The workers are interchangeable, so of
\* the idle ones the lowest-numbered takes it.
take_task(w) ==
    /\ mainState = "running"
    /\ wk[w].pc = "idle"
    /\ \A v \in Workers : v < w => wk[v].pc # "idle"
    /\ taskq # << >>
    /\ wk' = [wk EXCEPT ![w].chunk = Head(taskq), ![w].pc = "ready"]
    /\ taskq' = Tail(taskq)
    /\ UNCHANGED <<command, num_jobs, files, dirs, cases, job, printed,
                   mainState, timeReported>>

\* pool.map returns (or the loop ends) once every task has ended; it raises
\* the first exception of a task, and main() then ends without its report
main_finish ==
    /\ mainState = "running"
    /\ taskq = << >>
    /\ \A w \in DOMAIN wk : wk[w].pc = "idle"
    /\ IF \E j \in DOMAIN job : job[j].phase \in {"raised_convert", "raised_makedirs", "raised_move"}
       THEN /\ mainState' = "crashed"
            /\ UNCHANGED timeReported
       ELSE /\ mainState' = "done"
            /\ timeReported' = TRUE
    /\ UNCHANGED <<command, num_jobs, files, dirs, cases, taskq, wk, job, printed>>

\* ------------------------------------------------------------------------
\* process_case: the converters
\* ------------------------------------------------------------------------

\* process_case(args_tuple) calls fcn(path, ...): the converter's entry, up to
\* its first external action
process_case_call(w) ==
    /\ mainState = "running"
    /\ wk[w].pc = "ready"
    /\ LET j == Cur(w)
           counted == [job EXCEPT ![j].runs = @ + 1, ![j].phase = "converting"]
       IN  CASE cases[j].fcn = "to_mp3" ->
                   /\ job' = counted
                   /\ wk' = [wk EXCEPT ![w].pc = "to_mp3_tags"]
                   /\ UNCHANGED mainState
             [] cases[j].fcn = "to_wav" ->
                   /\ job' = counted
                   /\ wk' = [wk EXCEPT ![w].pc =
                               IF Ext(j) \in {E_flac, E_mp3} THEN "to_wav_cmd" ELSE "dest"]
                   /\ UNCHANGED mainState
             [] cases[j].fcn = "to_flac" ->
                   IF Ext(j) = E_mp3
                   THEN \* assert ext != '.mp3'
                        Raise(w, j, counted, "raised_convert")
                   ELSE /\ job' = counted
                        /\ wk' = [wk EXCEPT ![w].pc =
                                    CASE Ext(j) = E_flac -> "flac_decode"
                                      [] Ext(j) = E_wav  -> "to_flac_cmd"
                                      [] OTHER           -> "dest"]
                        /\ UNCHANGED mainState
    /\ UNCHANGED <<command, num_jobs, files, dirs, cases, taskq, printed, timeReported>>

\* get_tag_info_from_file(path): 'sox --info path' is started and waited for
get_tag_info_from_file(w, at_pc, next_pc) ==
    /\ mainState = "running"
    /\ wk[w].pc = at_pc
    /\ job' = [job EXCEPT ![Cur(w)].procs = @ + 1]
    /\ wk' = [wk EXCEPT ![w].pc = next_pc]
    /\ UNCHANGED <<command, num_jobs, files, dirs, cases, taskq, printed,
                   mainState, timeReported>>

\* to_mp3: the tags of the file
to_mp3_tags(w) == get_tag_info_from_file(w, "to_mp3_tags", "to_mp3_cmd")

\* to_mp3: the lame command
to_mp3(w) ==
    /\ mainState = "running"
    /\ wk[w].pc = "to_mp3_cmd"
    /\ RunOrPrint(w, Cur(w), "dest")
    /\ UNCHANGED <<command, num_jobs, files, dirs, cases, taskq, mainState, timeReported>>

\* to_wav: 'flac -d' or sox
to_wav(w) ==
    /\ mainState = "running"
    /\ wk[w].pc = "to_wav_cmd"
    /\ RunOrPrint(w, Cur(w), "dest")
    /\ UNCHANGED <<command, num_jobs, files, dirs, cases, taskq, mainState, timeReported>>

\* to_flac on a .wav: the flac command
to_flac(w) ==
    /\ mainState = "running"
    /\ wk[w].pc = "to_flac_cmd"
    /\ RunOrPrint(w, Cur(w), "dest")
    /\ UNCHANGED <<command, num_jobs, files, dirs, cases, taskq, mainState, timeReported>>

\* flac_to_flac: decode the original flac to the temporary wave file
flac_to_flac_decode(w) ==
    /\ mainState = "running"
    /\ wk[w].pc = "flac_decode"
    /\ LET j == Cur(w)
       IN  IF cases[j].preview
           THEN /\ printed' = Append(printed, j)
                /\ wk' = [wk EXCEPT ![w].pc = "flac_tags"]
                /\ UNCHANGED <<job, files>>
           ELSE /\ \E o \in DecodeOutcomes :
                     /\ job' = [job EXCEPT
                                  ![j].procs = @ + 1,
                                  ![j].cmds = @ + 1,
                                  ![j].temps = @ + (IF o.out THEN 1 ELSE 0)]
                     /\ files' = IF o.out
                                 THEN (temp_wav_filename(j) :> temp_wav_filename(j)) @@ files
                                 ELSE files
                     /\ wk' = [wk EXCEPT ![w].pc = "flac_tags",
                                         ![w].status = check_subprocess_status(o.rc)]
                /\ UNCHANGED printed
    /\ UNCHANGED <<command, num_jobs, dirs, cases, taskq, mainState, timeReported>>

\* flac_to_flac: the tags of the original flac
flac_to_flac_tags(w) == get_tag_info_from_file(w, "flac_tags", "flac_encode")

\* flac_to_flac: encode the temporary wave file to the new flac file
flac_to_flac_encode(w) ==
    /\ mainState = "running"
    /\ wk[w].pc = "flac_encode"
    /\ RunOrPrint(w, Cur(w), "flac_remove")
    /\ UNCHANGED <<command, num_jobs, files, dirs, cases, taskq, mainState, timeReported>>

\* flac_to_flac: os.remove(temp_wav_filename), which raises when the file is
\* not there
flac_to_flac_remove(w) ==
    /\ mainState = "running"
    /\ wk[w].pc = "flac_remove"
    /\ LET j == Cur(w)
       IN  IF cases[j].preview
           THEN /\ wk' = [wk EXCEPT ![w].pc = "dest"]
                /\ UNCHANGED <<job, files, mainState>>
           ELSE IF os_path_isfile(temp_wav_filename(j))
           THEN /\ files' = [p \in DOMAIN files \ {temp_wav_filename(j)} |-> files[p]]
                /\ wk' = [wk EXCEPT ![w].pc = "dest"]
                /\ UNCHANGED <<job, mainState>>
           ELSE /\ Raise(w, j, job, "raised_convert")
                /\ UNCHANGED files
    /\ UNCHANGED <<command, num_jobs, dirs, cases, taskq, printed, timeReported>>

\* ------------------------------------------------------------------------
\* process_case: moving the source file to the done folder
\* ------------------------------------------------------------------------

\* the while loop over os.path.split: the outermost folder of the path
RECURSIVE top_folder(_, _)
top_folder(remaining, folder) ==
    IF remaining = << >> THEN folder
    ELSE LET sp == path_split(remaining)
         IN  IF sp[1] = remaining THEN sp[2]
             ELSE top_folder(sp[1], sp[2])

\* dest_path = os.path.join('done', path.split(folder+'/')[1])
dest_path_of(path) ==
    path_join(D_done, split_1(path, top_folder(path_dirname(path), << >>) \o <<SLASH>>))

\* the destination is computed; in preview the move is only printed
process_case_dest(w) ==
    /\ mainState = "running"
    /\ wk[w].pc = "dest"
    /\ LET j  == Cur(w)
           dp == dest_path_of(cases[j].path)
           jb == [job EXCEPT ![j].dest = dp]
       IN  IF cases[j].preview
           THEN Return(w, j, jb, "returned")
           ELSE /\ job' = [jb EXCEPT ![j].phase = "relocating"]
                /\ wk' = [wk EXCEPT ![w].pc = "makedirs",
                                    ![w].dest_path = dp,
                                    ![w].mk = <<path_dirname(dp)>>]
                /\ UNCHANGED mainState
    /\ UNCHANGED <<command, num_jobs, files, dirs, cases, taskq, printed, timeReported>>

\* head and tail as os.makedirs(name) takes them
makedirs_split(name) ==
    LET sp == path_split(name)
    IN  IF sp[2] = << >> THEN path_split(sp[1]) ELSE sp

\* os.makedirs(name): the test of the parent; a missing parent is made by a
\* recursive call first (wk[w].mk is the stack of calls, innermost last)
makedirs_parent(w) ==
    /\ mainState = "running"
    /\ wk[w].pc = "makedirs"
    /\ LET name == wk[w].mk[Len(wk[w].mk)]
           sp   == makedirs_split(name)
       IN  IF sp[1] # << >> /\ sp[2] # << >> /\ ~os_path_exists(sp[1])
           THEN wk' = [wk EXCEPT ![w].mk = Append(@, sp[1])]
           ELSE wk' = [wk EXCEPT ![w].pc = "mkdir"]
    /\ UNCHANGED <<command, num_jobs, files, dirs, cases, taskq, job, printed,
                   mainState, timeReported>>

\* mkdir(name) fails with FileExistsError when name exists, and with another
\* OSError when its parent is not a directory
mkdir_error(name) ==
    IF os_path_exists(name) THEN "FileExistsError"
    ELSE IF path_dirname(Norm(name)) # << >> /\ ~os_path_isdir(path_dirname(Norm(name)))
    THEN "OSError"
    ELSE "none"

\* a makedirs whose recursive call lets its FileExistsError through
after_mkdir_error_unhandled(stack, err) == [pc |-> "isdir", mk |-> << >>]

\* where the error of a mkdir goes: a FileExistsError of a recursive call is
\* passed over by the calling makedirs, which goes on to its own mkdir; every
\* other error, and any error of the outermost call, reaches the except
\* clause of process_case
after_mkdir_error(stack, err) ==
    IF Len(stack) > 1 /\ err = "FileExistsError"
    THEN [pc |-> "mkdir", mk |-> SubSeq(stack, 1, Len(stack) - 1)]
    ELSE [pc |-> "isdir", mk |-> << >>]

\* os.makedirs: the mkdir of the innermost pending call
makedirs_mkdir(w) ==
    /\ mainState = "running"
    /\ wk[w].pc = "mkdir"
    /\ LET stack == wk[w].mk
           name  == stack[Len(stack)]
           err   == mkdir_error(name)
       IN  IF err = "none"
           THEN /\ dirs' = dirs \cup {Norm(name)}
                /\ wk' = [wk EXCEPT
                            ![w].mk = SubSeq(stack, 1, Len(stack) - 1),
                            ![w].pc = IF Len(stack) = 1 THEN "move" ELSE "mkdir"]
           ELSE /\ dirs' = dirs
                /\ wk' = [wk EXCEPT
                            ![w].mk = after_mkdir_error(stack, err).mk,
                            ![w].pc = after_mkdir_error(stack, err).pc]
    /\ UNCHANGED <<command, num_jobs, files, cases, taskq, job, printed,
                   mainState, timeReported>>

\* except OSError: if not os.path.isdir(dest_folder): raise
process_case_isdir(w) ==
    /\ mainState = "running"
    /\ wk[w].pc = "isdir"
    /\ IF os_path_isdir(path_dirname(wk[w].dest_path))
       THEN /\ wk' = [wk EXCEPT ![w].pc = "move"]
            /\ UNCHANGED <<job, mainState>>
       ELSE Raise(w, Cur(w), job, "raised_makedirs")
    /\ UNCHANGED <<command, num_jobs, files, dirs, cases, taskq, printed, timeReported>>

\* shutil.move(path, dest_path): a destination that is a directory takes the
\* file under its own name, and that name must be free
shutil_move_dst(w) ==
    /\ mainState = "running"
    /\ wk[w].pc = "move"
    /\ LET j   == Cur(w)
           dst == wk[w].dest_path
           real_dst == IF os_path_isdir(dst)
                       THEN path_join(dst, shutil_basename(cases[j].path))
                       ELSE dst
           jb  == [job EXCEPT ![j].phase = "moving"]
       IN  IF os_path_isdir(dst) /\ os_path_exists(real_dst)
           THEN Raise(w, j, jb, "raised_move")
           ELSE /\ job' = jb
                /\ wk' = [wk EXCEPT ![w].pc = "rename", ![w].real_dst = real_dst]
                /\ UNCHANGED mainState
    /\ UNCHANGED <<command, num_jobs, files, dirs, cases, taskq, printed, timeReported>>

\* os.rename(src, dst) fails when dst is a directory or its folder is
\* missing; a regular file at dst is replaced
rename_fails(src, dst) ==
    os_path_isdir(dst) \/ ~os_path_isdir(path_dirname(Norm(dst)))

\* shutil.move: os.rename(src, real_dst); an OSError leads to the copy
shutil_move_rename(w) ==
    /\ mainState = "running"
    /\ wk[w].pc = "rename"
    /\ LET j   == Cur(w)
           src == cases[j].path
           dst == wk[w].real_dst
       IN  IF rename_fails(src, dst)
           THEN /\ wk' = [wk EXCEPT ![w].pc = "copy"]
                /\ UNCHANGED <<files, job, mainState>>
           ELSE /\ files' = [p \in (DOMAIN files \ {src}) \cup {dst} |->
                                IF p = dst THEN files[src] ELSE files[p]]
                /\ Return(w, j, [job EXCEPT ![j].at = dst], "returned")
    /\ UNCHANGED <<command, num_jobs, dirs, cases, taskq, printed, timeReported>>

\* shutil.move after a failed rename: copy2(src, real_dst), which writes into
\* real_dst when that is a directory, and os.unlink(src)
shutil_move_copy(w) ==
    /\ mainState = "running"
    /\ wk[w].pc = "copy"
    /\ LET j   == Cur(w)
           src == cases[j].path
           dst == IF os_path_isdir(wk[w].real_dst)
                  THEN path_join(wk[w].real_dst, shutil_basename(src))
                  ELSE wk[w].real_dst
       IN  IF rename_fails(src, dst)
           THEN /\ Raise(w, j, job, "raised_move")
                /\ UNCHANGED files
           ELSE /\ files' = [p \in (DOMAIN files \ {src}) \cup {dst} |->
                                IF p = dst THEN files[src] ELSE files[p]]
                /\ Return(w, j, [job EXCEPT ![j].at = dst], "returned")
    /\ UNCHANGED <<command, num_jobs, dirs, cases, taskq, printed, timeReported>>

\* ------------------------------------------------------------------------
\* The run
\* ------------------------------------------------------------------------

\* the folders that hold the files of a set of pool indices
FoldersOf(S) ==
    {src_folders[i] : i \in 1..Len(src_folders)}
        \cup UNION {Ancestors(FilePool[i]) : i \in S}

Max(a, b) == IF a >= b THEN a ELSE b

\* no converter call is looked at on its own
TagsIdle ==
    /\ t_pc = "idle"
    /\ t_fcn = "none"
    /\ t_parts = << >>
    /\ t_path = << >>
    /\ embedded = << >>
    /\ tag_info = << >>
    /\ addtl_tags = << >>
    /\ merged_once = << >>

\* The state when main() is entered: the source folders with at most MaxJobs
\* files (fewer when several workers run), no done folder yet, the command of the command line, and
\* num_jobs = max(num_cpus + jobs_adjustment, 1)
Init ==
    /\ command \in {"go", "preview"}
    /\ \E num_cpus \in 1..MaxK : \E jobs_adjustment \in (0 - MaxK)..0 :
          num_jobs = Max(num_cpus + jobs_adjustment, 1)
    /\ \E S \in SUBSET PoolIdx :
          /\ Cardinality(S) <= (IF command = "go" /\ num_jobs > 1
                                 THEN MaxParJobs ELSE MaxJobs)
          /\ files = [p \in {FilePool[i] : i \in S} |-> p]
          /\ dirs = FoldersOf(S)
    /\ cases = << >>
    /\ taskq = << >>
    /\ wk = [w \in 1..num_jobs |-> IdleWorker]
    /\ job = << >>
    /\ printed = << >>
    /\ mainState = "init"
    /\ timeReported = FALSE
    /\ TagsIdle

Next ==
    \/ main_start /\ UNCHANGED tagVars
    \/ main_finish /\ UNCHANGED tagVars
    \/ \E w \in Workers : take_task(w) /\ UNCHANGED tagVars
    \/ \E w \in Workers : process_case_call(w) /\ UNCHANGED tagVars
    \/ \E w \in Workers : to_mp3_tags(w) /\ UNCHANGED tagVars
    \/ \E w \in Workers : to_mp3(w) /\ UNCHANGED tagVars
    \/ \E w \in Workers : to_wav(w) /\ UNCHANGED tagVars
    \/ \E w \in Workers : to_flac(w) /\ UNCHANGED tagVars
    \/ \E w \in Workers : flac_to_flac_decode(w) /\ UNCHANGED tagVars
    \/ \E w \in Workers : flac_to_flac_tags(w) /\ UNCHANGED tagVars
    \/ \E w \in Workers : flac_to_flac_encode(w) /\ UNCHANGED tagVars
    \/ \E w \in Workers : flac_to_flac_remove(w) /\ UNCHANGED tagVars
    \/ \E w \in Workers : process_case_dest(w) /\ UNCHANGED tagVars
    \/ \E w \in Workers : makedirs_parent(w) /\ UNCHANGED tagVars
    \/ \E w \in Workers : makedirs_mkdir(w) /\ UNCHANGED tagVars
    \/ \E w \in Workers : process_case_isdir(w) /\ UNCHANGED tagVars
    \/ \E w \in Workers : shutil_move_dst(w) /\ UNCHANGED tagVars
    \/ \E w \in Workers : shutil_move_rename(w) /\ UNCHANGED tagVars
    \/ \E w \in Workers : shutil_move_copy(w) /\ UNCHANGED tagVars

Spec == Init /\ [][Next]_vars

\* ------------------------------------------------------------------------
\* The tag resolution of to_mp3 and to_flac on its own
\* ------------------------------------------------------------------------

\* the deepest folder nesting of the paths tried
MaxSegments == 5

Genres  == { <<"R","o","c","k">>, D_2mp3 }
Artists == { <<"T","h","e"," ","B">>, D_2mp3 }
Years   == { <<"1","9","9","9">> }
Albums  == { <<"A","l">>, <<"A","-","b">> }
Tracks  == { <<"0","3">> }
Titles  == { <<"S","o">>, <<"S","-","o",".","2">> }
Seps    == { <<"-">>, <<" ","-"," ">>, <<".">> }
ExtraFolder == <<"X">>

\* the names a path is built from; nseg is the number of segments below the
\* source folder
TagInputs ==
    [nseg : 1..MaxSegments, genre : Genres, artist : Artists, year : Years,
     sep1 : Seps, album : Albums, track : Tracks, sep2 : Seps, title : Titles]

\* the segments below the source folder, innermost first
SegmentsOf(parts) ==
    LET named == << parts.track \o parts.sep2 \o parts.title,
                    parts.year \o parts.sep1 \o parts.album,
                    parts.artist,
                    parts.genre >>
    IN  [i \in 1..parts.nseg |-> IF i <= 4 THEN named[i] ELSE ExtraFolder]

\* src_folder/.../genre/artist/year<SEP>album/track<SEP>title.wav
RECURSIVE BuildPath(_, _)
BuildPath(segs, i) ==
    IF i = 1 THEN segs[1] \o E_wav
    ELSE segs[i] \o <<SLASH>> \o BuildPath(segs, i - 1)

\* the source folder whose name the converter passes to get_tag_info_from_path
src_folder_of(fcn) == IF fcn = "to_mp3" THEN D_2mp3 ELSE D_2flac

\* the tags sox --info may report for a file
EmbKeys == {"TITLE", "ARTIST", "COMMENT"}
EmbeddedTagSets ==
    UNION { [K -> { <<"E">> }] : K \in SUBSET EmbKeys }

RunIdle ==
    /\ command = "none"
    /\ num_jobs = 0
    /\ files = << >>
    /\ dirs = {}
    /\ cases = << >>
    /\ taskq = << >>
    /\ wk = << >>
    /\ job = << >>
    /\ printed = << >>
    /\ mainState = "none"
    /\ timeReported = FALSE

InitTags ==
    /\ RunIdle
    /\ t_pc = "start"
    /\ t_fcn \in {"to_mp3", "to_flac"}
    /\ t_parts \in TagInputs
    /\ t_path = src_folder_of(t_fcn) \o <<SLASH>>
                    \o BuildPath(SegmentsOf(t_parts), t_parts.nseg)
    /\ embedded = << >>
    /\ tag_info = << >>
    /\ addtl_tags = << >>
    /\ merged_once = << >>

\* to_mp3: tag_info = get_tag_info_from_file(path)
to_mp3_file_tags ==
    /\ t_pc = "start"
    /\ t_fcn = "to_mp3"
    /\ \E e \in EmbeddedTagSets : embedded' = e /\ tag_info' = e
    /\ t_pc' = "file"
    /\ UNCHANGED <<t_fcn, t_parts, t_path, addtl_tags, merged_once>>

\* to_mp3: addtl_tags = get_tag_info_from_path(path, '2mp3')
to_mp3_path_tags ==
    /\ t_pc = "file"
    /\ addtl_tags' = get_tag_info_from_path(t_path, src_folder_of(t_fcn))
    /\ t_pc' = "path"
    /\ UNCHANGED <<t_fcn, t_parts, t_path, embedded, tag_info, merged_once>>

\* to_mp3: the merge loop
to_mp3_merge ==
    /\ t_pc = "path"
    /\ tag_info' = merge_tags(tag_info, addtl_tags)
    /\ merged_once' = merge_tags(tag_info, addtl_tags)
    /\ t_pc' = "merged"
    /\ UNCHANGED <<t_fcn, t_parts, t_path, embedded, addtl_tags>>

\* the merge loop run once more on its own result
to_mp3_merge_again ==
    /\ t_pc = "merged"
    /\ tag_info' = merge_tags(tag_info, addtl_tags)
    /\ t_pc' = "again"
    /\ UNCHANGED <<t_fcn, t_parts, t_path, embedded, addtl_tags, merged_once>>

\* to_flac on a .wav: tag_info = get_tag_info_from_path(path, '2flac')
to_flac_path_tags ==
    /\ t_pc = "start"
    /\ t_fcn = "to_flac"
    /\ addtl_tags' = get_tag_info_from_path(t_path, src_folder_of(t_fcn))
    /\ tag_info' = get_tag_info_from_path(t_path, src_folder_of(t_fcn))
    /\ t_pc' = "done"
    /\ UNCHANGED <<t_fcn, t_parts, t_path, embedded, merged_once>>

NextTags ==
    \/ to_mp3_file_tags /\ UNCHANGED runVars
    \/ to_mp3_path_tags /\ UNCHANGED runVars
    \/ to_mp3_merge /\ UNCHANGED runVars
    \/ to_mp3_merge_again /\ UNCHANGED runVars
    \/ to_flac_path_tags /\ UNCHANGED runVars

SpecTags == InitTags /\ [][NextTags]_vars

\* ------------------------------------------------------------------------
\* Properties
\* ------------------------------------------------------------------------

Raised(j) == job[j].phase \in {"raised_convert", "raised_makedirs", "raised_move"}

Ended(j) == job[j].phase = "returned" \/ Raised(j)

RunOver == mainState \in {"done", "crashed"}

\* shutil.move was called for case j
MoveAttempted(j) == job[j].phase \in {"moving", "returned", "raised_move"}

\* the number of conversion commands the converter of case j issues
NumCmds(j) ==
    CASE cases[j].fcn = "to_mp3" -> 1
      [] cases[j].fcn = "to_wav" -> IF Ext(j) \in {E_flac, E_mp3} THEN 1 ELSE 0
      [] cases[j].fcn = "to_flac" ->
            IF Ext(j) = E_flac THEN 2 ELSE IF Ext(j) = E_wav THEN 1 ELSE 0

\* done/rel for the path R/rel: the path with its first segment replaced
MirrorDest(path) == D_done \o Sub(path, Find(path, <<SLASH>>, 1), Len(path))

\* C1: a 'go' run calls process_case exactly once for each of the N jobs, and
\* 'Time taken' is printed only when every job has finished its converter
\* step and its relocation step.
C1_EveryJobOnce ==
    command = "go" =>
        /\ \A j \in DOMAIN job : job[j].runs <= 1
        /\ RunOver => \A j \in DOMAIN job : job[j].runs = 1
        /\ timeReported => \A j \in DOMAIN job : job[j].phase = "returned"

\* C2: in a 'preview' run no external process is started, no file or
\* directory is created, moved or deleted, and the command lines printed are
\* one per job in job-list order.
C2_PreviewNoSideEffects ==
    (command = "preview" /\ mainState # "init") =>
        /\ \A j \in DOMAIN job : job[j].procs = 0
        /\ DOMAIN files = {cases[j].path : j \in DOMAIN cases}
        /\ \A p \in DOMAIN files : files[p] = p
        /\ dirs = {src_folders[i] : i \in 1..Len(src_folders)}
                    \cup UNION {Ancestors(cases[j].path) : j \in DOMAIN cases}
        /\ \A i \in 1..Len(printed) : printed[i] = i
        /\ mainState = "done" => Len(printed) = Len(cases)

\* C3: a non-preview to_flac on a .flac input produces exactly one temporary
\* wave file, the file is gone when the operation has ended, and the
\* operation ends normally whatever the exit codes of the decode and the
\* re-encode step.
C3_TempWaveRemoved ==
    \A j \in DOMAIN job :
        ( /\ cases[j].fcn = "to_flac"
          /\ Ext(j) = E_flac
          /\ ~cases[j].preview
          /\ job[j].phase \notin {"new", "converting"} ) =>
            /\ job[j].temps = 1
            /\ ~os_path_isfile(temp_wav_filename(j))
            /\ job[j].phase # "raised_convert"

\* C4: in a 'go' run the move of a job's source file is attempted only after
\* the job's conversion commands have exited, and it is attempted once they
\* have exited, with whatever exit code.
C4_MoveAfterCommands ==
    command = "go" =>
        \A j \in DOMAIN job :
            /\ MoveAttempted(j) => job[j].cmds = NumCmds(j)
            /\ (Ended(j) /\ NumCmds(j) > 0 /\ job[j].cmds = NumCmds(j))
                    => MoveAttempted(j)

\* C5: process_case computes done/rel as the destination of R/rel, and after
\* a 'go' run the relocated file is at that destination.
C5_DestMirrorsSource ==
    \A j \in DOMAIN job :
        /\ job[j].dest # << >> => job[j].dest = MirrorDest(cases[j].path)
        /\ (command = "go" /\ RunOver /\ job[j].phase = "returned") =>
                /\ os_path_isfile(MirrorDest(cases[j].path))
                /\ files[MirrorDest(cases[j].path)] = cases[j].path

\* C6: the merge of to_mp3 yields the union of the keys of the embedded and
\* the path tags, with the embedded value for every embedded key and the
\* path value for every other key, and merging the path tags once more
\* changes nothing.
C6_MergePrecedence ==
    t_pc \in {"merged", "again"} =>
        /\ DOMAIN tag_info = DOMAIN embedded \cup DOMAIN addtl_tags
        /\ \A k \in DOMAIN embedded : tag_info[k] = embedded[k]
        /\ \A k \in DOMAIN addtl_tags \ DOMAIN embedded : tag_info[k] = addtl_tags[k]
        /\ t_pc = "again" => tag_info = merged_once

\* C6: a merge in which the embedded tags win a conflict and the path tags
\* fill a gap, run twice
C6_Witness ==
    /\ t_pc = "again"
    /\ \E k \in DOMAIN embedded \cap DOMAIN addtl_tags : embedded[k] # addtl_tags[k]
    /\ DOMAIN addtl_tags \ DOMAIN embedded # {}
    /\ DOMAIN embedded \ DOMAIN addtl_tags # {}

\* the tags of the positions 1..n of a path built from parts
PositionTags(parts, n) ==
    [k \in (IF n >= 1 THEN {"TRACKNUMBER", "TITLE"} ELSE {})
            \cup (IF n >= 2 THEN {"DATE", "ALBUM"} ELSE {})
            \cup (IF n >= 3 THEN {"ARTIST"} ELSE {})
            \cup (IF n >= 4 THEN {"GENRE"} ELSE {}) |->
        CASE k = "TRACKNUMBER" -> parts.track
          [] k = "TITLE"       -> parts.title
          [] k = "DATE"        -> parts.year
          [] k = "ALBUM"       -> parts.album
          [] k = "ARTIST"      -> parts.artist
          [] k = "GENRE"       -> parts.genre]

Min(a, b) == IF a <= b THEN a ELSE b

\* the number of segments below the innermost folder named src_folder
SegmentsBelowRootName(parts, src_folder) ==
    LET segs == SegmentsOf(parts)
        hits == {i \in 1..Len(segs) : segs[i] = src_folder}
    IN  IF hits = {} THEN Len(segs)
        ELSE (CHOOSE i \in hits : \A k \in hits : i <= k) - 1

PathTagsKnown == t_pc \in {"path", "merged", "again", "done"}

C9_RaiseStopsNoOtherJob ==
    (command = "go" /\ RunOver) =>
        \A j \in DOMAIN job :
            Raised(j) =>
                \A i \in DOMAIN job \ {j} :
                    /\ job[i].runs = 1
                    /\ ~Raised(i) => job[i].phase = "returned"

\* C10: a file relocated into the done tree stays at its path with its
\* content for the rest of the run: no relocation replaces it.
C10_DoneTreeOnlyGrows ==
    [][\A p \in DOMAIN files :
          InDoneTree(p) => (p \in DOMAIN files' /\ files'[p] = files[p])]_vars

====
